---- MODULE Spec2Model ----
(***************************************************************************)
(* Model of the Whisper transcription service (python/app):                *)
(*   main.py            Flask endpoints GET /health and POST /transcribe   *)
(*   whisper_service.py lazily loaded process-wide model, transcribe()     *)
(*   utils.py           segments_to_timeline_clips()                       *)
(*                                                                         *)
(* Time values are integers counting ticks of 0.0002 s, so 5 ticks are one *)
(* millisecond and round(x, 3) is rounding to the nearest multiple of 5.   *)
(* On this grid no value lies halfway between two milliseconds, so the     *)
(* result does not depend on how a binary float resolves a tie.  Only      *)
(* finite time values are modelled (no NaN, no infinity).                  *)
(* Text is a sequence of characters.                                       *)
(***************************************************************************)
EXTENDS Integers, Sequences, FiniteSets, TLC

\* ------------------------------------------------------------------ bounds

\* Longest segment list handed to the converter.
MaxSegs == 2

\* Worker threads of the server, each handling one request at a time.
NThreads == 2

\* Random parts tempfile can give a name.
NNames == 2

\* ------------------------------------------------------------------- state

VARIABLES
    pc,             \* per thread: where its handler is
    req,            \* per thread: the request it handles, or None
    tmp,            \* per thread: tmp.name, or None
    model,          \* per thread: what get_model returned, or None
    resp,           \* per thread: the value of the return statement, or None
    _model,         \* whisper_service._model
    loads,          \* successful whisper.load_model calls so far
    fs,             \* the temporary directory: name -> file
    sent,           \* the last response the server sent, or None
    conv_pc, conv_segments, conv_clips

conv_vars == <<conv_pc, conv_segments, conv_clips>>
local_vars == <<pc, req, tmp, model, resp>>
shared_vars == <<_model, loads, fs>>
svc_vars == <<local_vars, shared_vars, sent>>
vars == <<svc_vars, conv_vars>>

\* ----------------------------------------------------- values and helpers

\* Python's None; a value that may be None is << >> or << value >>.
None == << >>

\* Whitespace characters of a text.
Whitespace == {" "}

\* Time values (ticks) the inputs are drawn from: 0, 0.4 ms, 0.6 ms, 1.6 ms.
StartTimes == {0, 2, 3}
EndTimes == {0, 3, 8}

\* Texts the inputs are drawn from: blank, plain, padded.
Texts == {<< " " >>, << "a" >>, << " ", "a", " " >>}

\* A dict with no keys.
EmptyDict == [k \in {} |-> 0]

\* round(x, 3): nearest multiple of one millisecond (5 ticks).
Round3(x) ==
    LET r == x % 5
    IN  IF r <= 2 THEN x - r ELSE x + (5 - r)

SetMin(S) == CHOOSE x \in S : \A y \in S : x <= y
SetMax(S) == CHOOSE x \in S : \A y \in S : x >= y

\* str.strip(): the text without leading and trailing whitespace.
strip(s) ==
    LET keep == {i \in 1..Len(s) : s[i] \notin Whitespace}
    IN  IF keep = {} THEN << >> ELSE SubSeq(s, SetMin(keep), SetMax(keep))

\* dict.get(key, default)
get(d, key, default) == IF key \in DOMAIN d THEN d[key] ELSE default

\* ------------------------------------------------- utils.py: the converter

\* loop_body with the test duration < 0: a zero duration is kept.
clip_dropping_only_negative(seg) ==
    LET start == get(seg, "start", 0)
        end == get(seg, "end", start)
        duration == Round3(end - start)
        text == strip(get(seg, "text", << >>))
    IN  IF duration < 0 THEN << >>
        ELSE IF text = << >> THEN << >>
        ELSE << [start |-> Round3(start), duration |-> duration,
                 subtitleText |-> text] >>

\* loop_body without the rounding of start.
clip_with_raw_start(seg) ==
    LET start == get(seg, "start", 0)
        end == get(seg, "end", start)
        duration == Round3(end - start)
        text == strip(get(seg, "text", << >>))
    IN  IF duration <= 0 THEN << >>
        ELSE IF text = << >> THEN << >>
        ELSE << [start |-> start, duration |-> duration,
                 subtitleText |-> text] >>

\* One iteration of the converter's loop: the clips it appends for seg
\* (none when the segment is skipped).
loop_body(seg) ==
    LET start == get(seg, "start", 0)
        end == get(seg, "end", start)
        duration == Round3(end - start)
        text == strip(get(seg, "text", << >>))
    IN  IF duration <= 0 THEN << >>
        ELSE IF text = << >> THEN << >>
        ELSE << [start |-> Round3(start), duration |-> duration,
                 subtitleText |-> text] >>

RECURSIVE clips_loop(_, _, _)
clips_loop(segments, i, clips) ==
    IF i > Len(segments) THEN clips
    ELSE clips_loop(segments, i + 1, clips \o loop_body(segments[i]))

segments_to_timeline_clips(segments) == clips_loop(segments, 1, << >>)

\* Segment dicts the converter is tried on: every combination of a present
\* or missing start, end and text.
StartParts == {EmptyDict} \cup {("start" :> s) : s \in StartTimes}
EndParts == {EmptyDict} \cup {("end" :> e) : e \in EndTimes}
TextParts == {EmptyDict} \cup {("text" :> x) : x \in Texts}
SegmentDicts == {s @@ e @@ x : s \in StartParts, e \in EndParts, x \in TextParts}

RECURSIVE ListsUpTo(_, _)
ListsUpTo(S, n) ==
    IF n = 0 THEN {<< >>}
    ELSE LET shorter == ListsUpTo(S, n - 1)
         IN  shorter \cup {Append(l, x) : l \in shorter, x \in S}

ConverterInputs == ListsUpTo(SegmentDicts, MaxSegs)


\* ------------------------------------------- whisper_service.py: transcribe

\* What whisper.load_model and model.transcribe can raise.
LoadError == "model load failed"
TranscribeError == "transcription failed"

\* store_model as a compare-and-set: a reference already set is kept.
store_if_unset(current, loaded) == IF current = None THEN loaded ELSE current

\* The assignment of the loaded model to the module's reference.

store_model(current, loaded) == loaded

\* must_load without the test: every call loads.
never_cached(current) == TRUE

\* Whether get_model has to load the model.

must_load(current) == current = None

\* The loop that turns the model's result into the returned segments.
RECURSIVE segments_loop(_, _, _)
segments_loop(raw, i, segments) ==
    IF i > Len(raw) THEN segments
    ELSE LET seg == raw[i]
             text == strip(get(seg, "text", << >>))
         IN  IF text = << >> THEN segments_loop(raw, i + 1, segments)
             ELSE segments_loop(raw, i + 1,
                      Append(segments, [start |-> Round3(seg["start"]),
                                        end |-> Round3(seg["end"]),
                                        text |-> text]))

transcribe_segments(result) == segments_loop(get(result, "segments", << >>), 1, << >>)

\* Results of model.transcribe the server is run on: each segment has start,
\* end and text.  Spoken lasts 1.6 ms, Instant has no duration, Silence has
\* blank text.
Spoken == [start |-> 0, end |-> 8, text |-> << " ", "a", " " >>]
Instant == [start |-> 3, end |-> 3, text |-> << "a" >>]
Silence == [start |-> 2, end |-> 3, text |-> << " " >>]
WhisperResults ==
    { EmptyDict,
      [segments |-> << >>],
      [segments |-> << Spoken, Instant >>],
      [segments |-> << Silence, Spoken, Spoken >>] }

\* ------------------------------------------------------ main.py: endpoints

Threads == 1..NThreads

\* Filenames of the uploaded part: empty, or a name with an extension.
Filenames == {<< >>, << "c", ".", "w" >>}

\* request.files of a POST /transcribe: no 'file' part, or one.
Requests ==
    {[files |-> EmptyDict]} \cup
    {[files |-> ("file" :> [filename |-> f])] : f \in Filenames}

\* os.path.splitext(p)[1]: from the last dot, unless only dots precede it.
splitext_ext(p) ==
    LET dots == {i \in 1..Len(p) : p[i] = "."}
    IN  IF dots = {} THEN << >>
        ELSE LET last == SetMax(dots)
             IN  IF \A i \in 1..(last - 1) : p[i] = "." THEN << >>
                 ELSE SubSeq(p, last, Len(p))

DefaultSuffix == << ".", "m", "p", "4" >>

suffix_of(filename) ==
    LET ext == splitext_ext(filename)
    IN  IF ext = << >> THEN DefaultSuffix ELSE ext

Suffixes == {suffix_of(f) : f \in Filenames \ {<< >>}}

\* Names of temporary files, and the files of the temporary directory.  A
\* file's owner is the thread whose request in progress created it; a file
\* left behind by a request that returned has owner Nobody.
TmpNames == [rand : 1..NNames, suffix : Suffixes]
Nobody == << >>
NoFile == [exists |-> FALSE, owner |-> Nobody]
file_of(t) == [exists |-> TRUE, owner |-> << t >>]

NoFileError == "No file provided. Send a file with key 'file'."
EmptyFilenameError == "Empty filename."
SaveError == "saving the upload failed"
TempfileError == "no temporary file"

\* health answering 200 only once the model is loaded.
health_ok_once_loaded ==
    IF _model = None
    THEN [status |-> 503, body |-> [status |-> "loading"]]
    ELSE [status |-> 200, body |-> [status |-> "ok"]]

\* The response of GET /health.
health == [status |-> 200, body |-> [status |-> "ok"]]

\* validate without the test of the filename.
validate_without_filename_check(r) ==
    IF "file" \notin DOMAIN r.files
    THEN << [status |-> 400, error |-> NoFileError] >>
    ELSE None

\* The checks before the processing block: the 400 response, or None.
validate(r) ==
    IF "file" \notin DOMAIN r.files
    THEN << [status |-> 400, error |-> NoFileError] >>
    ELSE IF r.files["file"].filename = << >>
         THEN << [status |-> 400, error |-> EmptyFilenameError] >>
         ELSE None

\* The except clause's response.
error_response(exc) ==
    [status |-> 500, error |-> << "Transcription failed: ", exc >>]

\* What the client gets when an exception leaves the handler.
unhandled_response(exc) == [status |-> 500, unhandled |-> exc]

\* success_response counting the segments instead of the clips.
success_counting_segments(segments) ==
    LET clips == segments_to_timeline_clips(segments)
    IN  [status |-> 200, clips |-> clips, segmentCount |-> Len(segments)]

\* The response of the success path.
success_response(segments) ==
    LET clips == segments_to_timeline_clips(segments)
    IN  [status |-> 200, clips |-> clips, segmentCount |-> Len(clips)]

\* fresh_names without the test for a file of that name.
any_name(files, suffix) == {n \in TmpNames : n.suffix = suffix}

\* Names NamedTemporaryFile may give the new file: those not in use.
fresh_names(files, suffix) ==
    {n \in TmpNames : n.suffix = suffix /\ ~files[n].exists}

\* The directory after a request of thread t returned without unlinking the
\* file called name: the file stays, owned by no request in progress.
left_behind(files, name, t) ==
    IF files[name].owner = << t >>
    THEN [files EXCEPT ![name].owner = Nobody]
    ELSE files

\* What the handler returns after the finally clause ran.
returned_after_finally(pending, unlink_ok) == pending

\* cleanup_runs with the unlink on the success path only.
cleanup_on_success_only(pending) == pending.status = 200

\* Whether the finally clause unlinks the temporary file.
cleanup_runs(pending) == TRUE

\* A response on the wire: the request it answers, the response, and what
\* became of os.unlink in the handler ("none" when it was not called).
Sent(request, response, unlink) ==
    << [request |-> request, response |-> response, unlink |-> unlink] >>

HealthRequest == [endpoint |-> "/health"]

Init ==
    /\ pc = [t \in Threads |-> "idle"]
    /\ req = [t \in Threads |-> None]
    /\ tmp = [t \in Threads |-> None]
    /\ model = [t \in Threads |-> None]
    /\ resp = [t \in Threads |-> None]
    /\ _model = None
    /\ loads = 0
    /\ fs = [n \in TmpNames |-> NoFile]
    /\ sent = None
    /\ conv_pc = "call"
    /\ conv_segments = << >>
    /\ conv_clips = << >>

\* GET /health.
Health ==
    /\ sent' = Sent(HealthRequest, health, "none")
    /\ UNCHANGED <<local_vars, shared_vars, conv_vars>>

\* The handler of thread t returns (or an exception leaves it): the response
\* goes out and the handler's locals are gone.
Return(t, response, unlink) ==
    /\ sent' = Sent(req[t][1], response, unlink)
    /\ pc' = [pc EXCEPT ![t] = "idle"]
    /\ req' = [req EXCEPT ![t] = None]
    /\ tmp' = [tmp EXCEPT ![t] = None]
    /\ resp' = [resp EXCEPT ![t] = None]

\* An exception raised inside the try block: the except clause sets the
\* response and control goes to the finally clause.
Raise(t, exc) ==
    /\ resp' = [resp EXCEPT ![t] = << error_response(exc) >>]
    /\ pc' = [pc EXCEPT ![t] = "finally"]

\* POST /transcribe arrives at an idle thread, which checks the request.
Start(t) ==
    /\ pc[t] = "idle"
    /\ \E r \in Requests :
        IF validate(r) # None
        THEN /\ sent' = Sent(r, validate(r)[1], "none")
             /\ UNCHANGED <<pc, req>>
        ELSE /\ req' = [req EXCEPT ![t] = << r >>]
             /\ pc' = [pc EXCEPT ![t] = "mktemp"]
             /\ UNCHANGED sent
    /\ UNCHANGED <<tmp, model, resp, shared_vars, conv_vars>>

\* tempfile.NamedTemporaryFile(delete=False, suffix=suffix), before the try.
MkTemp(t) ==
    /\ pc[t] = "mktemp"
    /\ \/ \E n \in fresh_names(fs, suffix_of(req[t][1].files["file"].filename)) :
            /\ fs' = [fs EXCEPT ![n] = file_of(t)]
            /\ tmp' = [tmp EXCEPT ![t] = << n >>]
            /\ pc' = [pc EXCEPT ![t] = "save"]
            /\ UNCHANGED <<req, resp, sent>>
       \/ /\ Return(t, unhandled_response(TempfileError), "none")
          /\ UNCHANGED fs
    /\ UNCHANGED <<model, _model, loads, conv_vars>>

\* uploaded.save(tmp.name); tmp.close()
Save(t) ==
    /\ pc[t] = "save"
    /\ \/ /\ fs' = [fs EXCEPT ![tmp[t][1]] = file_of(t)]
          /\ pc' = [pc EXCEPT ![t] = "get_model"]
          /\ UNCHANGED resp
       \/ /\ Raise(t, SaveError)
          /\ UNCHANGED fs
    /\ UNCHANGED <<req, tmp, model, _model, loads, sent, conv_vars>>

\* get_model: the test of the module's reference.
GetModel(t) ==
    /\ pc[t] = "get_model"
    /\ pc' = [pc EXCEPT ![t] = IF must_load(_model) THEN "load" ELSE "return"]
    /\ UNCHANGED <<req, tmp, model, resp, shared_vars, sent, conv_vars>>

\* get_model: whisper.load_model and the assignment of its result.
LoadModel(t) ==
    /\ pc[t] = "load"
    /\ \/ /\ _model' = store_model(_model, << loads + 1 >>)
          /\ loads' = loads + 1
          /\ pc' = [pc EXCEPT ![t] = "return"]
          /\ UNCHANGED resp
       \/ /\ Raise(t, LoadError)
          /\ UNCHANGED <<_model, loads>>
    /\ UNCHANGED <<req, tmp, model, fs, sent, conv_vars>>

\* get_model: return _model, bound to transcribe's local.
ReturnModel(t) ==
    /\ pc[t] = "return"
    /\ model' = [model EXCEPT ![t] = _model]
    /\ pc' = [pc EXCEPT ![t] = "transcribe"]
    /\ UNCHANGED <<req, tmp, resp, shared_vars, sent, conv_vars>>

\* model.transcribe reads the file; its segments are filtered and rounded,
\* converted to clips and returned as the 200 response.  The language option
\* only reaches the model, whose result is any of WhisperResults or an
\* exception.  transcribe's local reference to the model ends with the call.
Transcribe(t) ==
    /\ pc[t] = "transcribe"
    /\ \/ /\ fs[tmp[t][1]].exists
          /\ \E result \in WhisperResults :
                LET segments == transcribe_segments(result)
                IN  /\ resp' = [resp EXCEPT ![t] = << success_response(segments) >>]
                    /\ pc' = [pc EXCEPT ![t] = "finally"]
       \/ Raise(t, TranscribeError)
    /\ model' = [model EXCEPT ![t] = None]
    /\ UNCHANGED <<req, tmp, shared_vars, sent, conv_vars>>

\* The finally clause: os.unlink(tmp.name), OSError ignored; then the
\* handler returns.
Finally(t) ==
    /\ pc[t] = "finally"
    /\ IF cleanup_runs(resp[t][1])
       THEN \/ /\ fs[tmp[t][1]].exists
               /\ fs' = [fs EXCEPT ![tmp[t][1]] = NoFile]
               /\ Return(t, returned_after_finally(resp[t][1], TRUE), "ok")
            \/ /\ fs' = left_behind(fs, tmp[t][1], t)
               /\ Return(t, returned_after_finally(resp[t][1], FALSE), "failed")
       ELSE /\ fs' = left_behind(fs, tmp[t][1], t)
            /\ Return(t, resp[t][1], "none")
    /\ UNCHANGED <<model, _model, loads, conv_vars>>

Next ==
    \/ Health
    \/ \E t \in Threads : Start(t)
    \/ \E t \in Threads : MkTemp(t)
    \/ \E t \in Threads : Save(t)
    \/ \E t \in Threads : GetModel(t)
    \/ \E t \in Threads : LoadModel(t)
    \/ \E t \in Threads : ReturnModel(t)
    \/ \E t \in Threads : Transcribe(t)
    \/ \E t \in Threads : Finally(t)

Spec == Init /\ [][Next]_vars

\* The same server taking one POST /transcribe at a time.
SeqStart(t) ==
    /\ \A u \in Threads : pc[u] = "idle"
    /\ Start(t)

SeqNext ==
    \/ Health
    \/ \E t \in Threads : SeqStart(t)
    \/ \E t \in Threads : MkTemp(t)
    \/ \E t \in Threads : Save(t)
    \/ \E t \in Threads : GetModel(t)
    \/ \E t \in Threads : LoadModel(t)
    \/ \E t \in Threads : ReturnModel(t)
    \/ \E t \in Threads : Transcribe(t)
    \/ \E t \in Threads : Finally(t)

SeqSpec == Init /\ [][SeqNext]_vars

\* The converter alone, called on every input of ConverterInputs.
ConvInit ==
    /\ pc = [t \in Threads |-> "idle"]
    /\ req = [t \in Threads |-> None]
    /\ tmp = [t \in Threads |-> None]
    /\ model = [t \in Threads |-> None]
    /\ resp = [t \in Threads |-> None]
    /\ _model = None
    /\ loads = 0
    /\ fs = [n \in TmpNames |-> NoFile]
    /\ sent = None
    /\ conv_pc = "call"
    /\ conv_segments \in ConverterInputs
    /\ conv_clips = << >>

Convert ==
    /\ conv_pc = "call"
    /\ conv_clips' = segments_to_timeline_clips(conv_segments)
    /\ conv_pc' = "returned"
    /\ UNCHANGED <<conv_segments, svc_vars>>

ConvNext == Convert

ConvSpec == ConvInit /\ [][ConvNext]_vars

\* ------------------------------------------------------------------ claims

\* The request and the response of the last message sent.
SentTranscribe == sent # None /\ "files" \in DOMAIN sent[1].request
SentHealth == sent # None /\ sent[1].request = HealthRequest
HasFilePart(r) == "file" \in DOMAIN r.files
Exceptions == {SaveError, LoadError, TranscribeError, TempfileError}

\* C1: whenever a handler that created a temporary file returns, on any
\* path, os.unlink was called on that file, the file is gone unless the
\* unlink failed, and the response is the one the return statement or the
\* except clause had produced, whether or not the unlink failed.
C1_TempFileDeletedOnEveryExit ==
    [][\A t \in Threads :
        (tmp[t] # None /\ pc'[t] = "idle") =>
            /\ sent'[1].unlink \in {"ok", "failed"}
            /\ sent'[1].unlink = "ok" => ~fs'[tmp[t][1]].exists
            /\ resp[t] # None
            /\ sent'[1].response = resp[t][1]]_vars

\* A 500 for a failed transcription went out, its file was unlinked and no
\* temporary file is left.
C1_Witness ==
    /\ sent = Sent([files |-> ("file" :> [filename |-> << "c", ".", "w" >>])],
                   error_response(TranscribeError), "ok")
    /\ \A n \in TmpNames : ~fs[n].exists

\* C2: every clip the converter returns has duration > 0 and a non-empty
\* subtitleText without leading or trailing whitespace, and it returns (no
\* error) exactly as many clips as the input has segments with a positive
\* rounded duration and non-blank text.
C2_Positive(seg) ==
    LET start == get(seg, "start", 0)
    IN  Round3(get(seg, "end", start) - start) > 0
C2_NonBlank(seg) ==
    \E i \in 1..Len(get(seg, "text", << >>)) : seg["text"][i] \notin Whitespace
C3_ClientErrors ==
    SentTranscribe =>
        LET r == sent[1].request
            a == sent[1].response
        IN  /\ ~HasFilePart(r) => a = [status |-> 400, error |-> NoFileError]
            /\ (HasFilePart(r) /\ r.files["file"].filename = << >>) =>
                  a = [status |-> 400, error |-> EmptyFilenameError]
            /\ a.status = 400 =>
                  (~HasFilePart(r) \/ r.files["file"].filename = << >>)

C3_Witness ==
    sent = Sent([files |-> ("file" :> [filename |-> << >>])],
                [status |-> 400, error |-> EmptyFilenameError], "none")

\* C4: a POST /transcribe that passed validation is answered 200 or, after
\* any exception of the processing, 500 with "Transcription failed: <message>".
C4_EveryFailureIsJson500 ==
    (SentTranscribe /\ validate(sent[1].request) = None) =>
        \/ sent[1].response.status = 200
        \/ \E exc \in Exceptions : sent[1].response = error_response(exc)

\* C5: the converter's output is the input filtered to the segments with
\* round(end - start, 3) > 0 and non-blank text, each mapped to its clip, in
\* the input's order.
C5_Kept(seg) ==
    LET start == get(seg, "start", 0)
    IN  /\ Round3(get(seg, "end", start) - start) > 0
        /\ strip(get(seg, "text", << >>)) # << >>
C5_ClipOf(seg) ==
    LET start == get(seg, "start", 0)
    IN  [start |-> Round3(start),
         duration |-> Round3(get(seg, "end", start) - start),
         subtitleText |-> strip(seg["text"])]
C6_HealthAlwaysOk ==
    /\ [](ENABLED Health)
    /\ [](SentHealth => sent[1].response = [status |-> 200, body |-> [status |-> "ok"]])
    /\ [][(sent' # sent /\ sent'[1].request = HealthRequest) =>
            UNCHANGED <<local_vars, shared_vars>>]_vars

\* Health was answered last, the model is not loaded and a request whose
\* model load failed is still being handled.
C6_Witness ==
    /\ SentHealth
    /\ _model = None
    /\ \E t \in Threads :
        pc[t] = "finally" /\ resp[t] = << error_response(LoadError) >>

\* C7: with one POST /transcribe at a time, a call that finds the reference
\* unset loads the model, a call that finds it set does not, the reference
\* never changes once set, every call gets the cached instance, and at most
\* one load succeeds.
C7_LoadedOnceAndReused ==
    [][/\ _model # None => _model' = _model
       /\ loads' <= 1
       /\ \A t \in Threads :
            /\ (pc[t] = "get_model" /\ pc'[t] # "get_model") =>
                  (pc'[t] = "load" <=> _model = None)
            /\ pc'[t] = "transcribe" => (_model' # None /\ model'[t] = _model')]_vars

\* After a request that was answered 200, a later one is transcribing with
\* the model loaded once.
C7_Witness ==
    /\ loads = 1
    /\ SentTranscribe /\ sent[1].response.status = 200
    /\ \E t \in Threads : pc[t] = "transcribe" /\ model[t] = _model

\* C8: get_model is a check followed by an unconditional assignment: a
\* thread that saw the reference unset loads and stores its own instance,
\* also over the instance another thread stored meanwhile.
C8_CheckThenSet ==
    [][\A t \in Threads :
        /\ (pc[t] = "get_model" /\ pc'[t] # "get_model") =>
              (pc'[t] = "load" <=> _model = None)
        /\ (pc[t] = "load" /\ pc'[t] = "return") =>
              (loads' = loads + 1 /\ _model' = << loads' >> /\ _model' # _model)]_vars

\* Two threads both loaded the model; the second load replaced the first
\* reference and the two transcribe with different instances.
C8_Witness ==
    /\ loads = 2
    /\ _model = << 2 >>
    /\ \E t, u \in Threads :
        /\ pc[t] = "transcribe" /\ pc[u] = "transcribe"
        /\ model[t] = << 1 >> /\ model[u] = << 2 >>

\* C9: while a request is being processed its temporary file exists, is the
\* file that request created, and has a name no other request in progress
\* uses; and a step creates, overwrites or deletes only the temporary file
\* of the request that takes the step.
C9_OwnTempFile ==
    /\ [](\A t \in Threads :
            tmp[t] # None =>
                /\ fs[tmp[t][1]] = file_of(t)
                /\ \A u \in Threads \ {t} : tmp[u] # tmp[t])
    /\ [][\A n \in TmpNames :
            fs'[n] # fs[n] =>
                \E t \in Threads :
                    /\ pc'[t] # pc[t]
                    /\ tmp[t] = << n >> \/ tmp'[t] = << n >>
                    /\ fs[n].exists => fs[n] = file_of(t)]_vars

\* Two requests are being transcribed at once, each from its own file.
C9_Witness ==
    \E t, u \in Threads :
        /\ t # u
        /\ pc[t] = "transcribe" /\ pc[u] = "transcribe"
        /\ fs[tmp[t][1]] = file_of(t) /\ fs[tmp[u][1]] = file_of(u)

\* C10: in every 200 response, pending or sent, segmentCount is the length
\* of clips.
C10_SegmentCountIsClipCount ==
    /\ (SentTranscribe /\ sent[1].response.status = 200) =>
          sent[1].response.segmentCount = Len(sent[1].response.clips)
    /\ \A t \in Threads :
          (resp[t] # None /\ resp[t][1].status = 200) =>
              resp[t][1].segmentCount = Len(resp[t][1].clips)

\* A 200 went out for a transcription of two segments of which one became a
\* clip.
C10_Witness ==
    /\ Len(transcribe_segments([segments |-> << Spoken, Instant >>])) = 2
    /\ SentTranscribe
    /\ sent[1].response =
          [status |-> 200,
           clips |-> << [start |-> 0, duration |-> 10, subtitleText |-> << "a" >>] >>,
           segmentCount |-> 1]

====
